---- MODULE Spec2Model ----
(***************************************************************************)
(* A2A admission filter (filters/a2a-wasm): the payload validator, the     *)
(* token estimator, the token bucket, the trust score and the proxy-wasm   *)
(* body handler that sequences them.                                       *)
(*                                                                         *)
(* Representation.  A Rust String is a sequence of Unicode code points;    *)
(* String::len is its UTF-8 byte length (StrLen), not the number of code   *)
(* points (CharCount).  Capabilities are only compared and formatted, so   *)
(* they are TLA+ strings.  Option<T> is <<>> (None) or <<v>> (Some(v)).    *)
(* f64 token amounts are integers (whole tokens); the trust score is a     *)
(* fixed-point number with unit Fixed.                                     *)
(***************************************************************************)
EXTENDS Integers, Sequences, FiniteSets, TLC

VARIABLES
    call,            \* the pure function last applied and its arguments
    ret,             \* what it returned
    config,          \* A2AFilter.config
    ctx,             \* the current HttpContext: the request in flight and what the filter did
    violationCount,  \* history: per identity, requests answered with a validation failure
    forwardedTokens, \* history: per identity, estimated cost of the requests continued upstream
    now              \* history: seconds elapsed since the first request

vars == <<call, ret, config, ctx, violationCount, forwardedTokens, now>>

None == <<>>
Some(v) == <<v>>

(***************************************************************************)
(* Strings                                                                 *)
(***************************************************************************)

\* UTF-8 encoded width of one code point.
Utf8Width(c) == IF c < 128 THEN 1 ELSE IF c < 2048 THEN 2 ELSE IF c < 65536 THEN 3 ELSE 4

RECURSIVE StrLen(_)
\* String::len(): the length in bytes of the UTF-8 encoding.
StrLen(s) == IF s = <<>> THEN 0 ELSE Utf8Width(Head(s)) + StrLen(Tail(s))

\* s.chars().count(): the number of characters.
CharCount(s) == Len(s)

\* String::is_empty()
is_empty(s) == StrLen(s) = 0

(***************************************************************************)
(* serde_json::to_string of a HashMap<String, Value>                       *)
(***************************************************************************)

JNull == [t |-> "null"]
JBool(b) == [t |-> "bool", b |-> b]
JNum(n) == [t |-> "num", n |-> n]
JStr(s) == [t |-> "str", s |-> s]

RECURSIVE Digits(_)
\* Decimal digits of a natural number, as code points.
Digits(n) == IF n < 10 THEN <<48 + n>> ELSE Digits(n \div 10) \o <<48 + (n % 10)>>

RECURSIVE EscapeStr(_)
\* The body of a JSON string: the quote and the backslash are escaped.
EscapeStr(s) ==
    IF s = <<>> THEN <<>>
    ELSE (IF Head(s) \in {34, 92} THEN <<92, Head(s)>> ELSE <<Head(s)>>) \o EscapeStr(Tail(s))

QuoteStr(s) == <<34>> \o EscapeStr(s) \o <<34>>

to_string_value(v) ==
    CASE v.t = "null" -> <<110, 117, 108, 108>>
      [] v.t = "bool" -> IF v.b THEN <<116, 114, 117, 101>> ELSE <<102, 97, 108, 115, 101>>
      [] v.t = "num" -> Digits(v.n)
      [] v.t = "str" -> QuoteStr(v.s)

RECURSIVE to_string_entries(_, _)
\* The entries of map m with keys ks, comma separated, in the map's iteration order.
to_string_entries(m, ks) ==
    IF ks = {} THEN <<>>
    ELSE LET k == CHOOSE x \in ks : TRUE
             rest == ks \ {k}
         IN  QuoteStr(k) \o <<58>> \o to_string_value(m[k])
                 \o (IF rest = {} THEN <<>> ELSE <<44>> \o to_string_entries(m, rest))

\* serde_json::to_string(&map): Ok for every map of string keys.
to_string(m) == <<123>> \o to_string_entries(m, DOMAIN m) \o <<125>>

(***************************************************************************)
(* a2a.rs: schema and A2ARequest::validate                                 *)
(***************************************************************************)

Text(text) == [type |-> "text", text |-> text]
File(name, mime_type, uri) ==
    [type |-> "file", name |-> name, mime_type |-> mime_type, uri |-> uri]
Data(data) == [type |-> "data", data |-> data]
FunctionCall(id, name, args) ==
    [type |-> "function_call", id |-> id, name |-> name, args |-> args]
FunctionResponse(call_id, response) ==
    [type |-> "function_response", call_id |-> call_id, response |-> response]

A2ARequest(task_id, role, parts, capabilities, metadata) ==
    [task_id |-> task_id,
     message_object |-> [role |-> role, parts |-> parts],
     capabilities |-> capabilities,
     metadata |-> metadata]

VALID_CAPS == {"a2a", "streaming", "pushNotifications", "stateManagement", "artifactSupport"}

\* A2ARequest::is_valid_capability
A2ARequest_is_valid_capability(cap) == cap \in VALID_CAPS

\* Display of ValidationError (thiserror's #[error] strings)
MissingTaskId == "task_id is required"
EmptyMessageParts == "message_object.parts cannot be empty"
InvalidCapability(cap) == "invalid capability: " \o cap
InvalidJson == "invalid JSON: "

Ok(v) == [ok |-> TRUE, val |-> v]
Err(e) == [ok |-> FALSE, err |-> e]

RECURSIVE FirstInvalid(_)
\* The first capability the loop of validate() returns on, if any.
FirstInvalid(caps) ==
    IF caps = <<>> THEN None
    ELSE IF ~A2ARequest_is_valid_capability(Head(caps)) THEN Some(Head(caps))
    ELSE FirstInvalid(Tail(caps))

\* A2ARequest::validate: returns on the first rule violated.
A2ARequest_validate(self) ==
    IF is_empty(self.task_id) THEN Err(MissingTaskId)
    ELSE IF self.message_object.parts = <<>> THEN Err(EmptyMessageParts)
    ELSE IF FirstInvalid(self.capabilities) # None
         THEN Err(InvalidCapability(FirstInvalid(self.capabilities)[1]))
    ELSE Ok(<<>>)

(***************************************************************************)
(* validation.rs                                                           *)
(***************************************************************************)

is_valid_capability_NoStateManagement(cap) == cap \in VALID_CAPS \ {"stateManagement"}

\* validation::is_valid_capability
is_valid_capability(cap) == cap \in VALID_CAPS

RECURSIVE CapabilityErrors(_)
\* The loop over request.capabilities: one error per capability that is not valid.
CapabilityErrors(caps) ==
    IF caps = <<>> THEN <<>>
    ELSE (IF ~is_valid_capability(Head(caps)) THEN <<InvalidCapability(Head(caps))>> ELSE <<>>)
             \o CapabilityErrors(Tail(caps))

count_part_characters(part) ==
    CASE part.type = "text" -> StrLen(part.text)
      [] part.type = "file" -> StrLen(part.name) + StrLen(part.mime_type)
      [] part.type = "data" -> StrLen(to_string(part.data))
      [] part.type = "function_call" -> StrLen(part.name) + StrLen(to_string(part.args))
      [] part.type = "function_response" ->
            StrLen(part.call_id) + StrLen(to_string(part.response))

RECURSIVE SumParts(_)
\* The loop of estimate_tokens over message_object.parts.
SumParts(parts) ==
    IF parts = <<>> THEN 0 ELSE count_part_characters(Head(parts)) + SumParts(Tail(parts))

estimate_tokens(request) ==
    LET chars == StrLen(request.task_id) + SumParts(request.message_object.parts)
    IN  (chars + 3) \div 4

\* serde_json::from_str::<A2ARequest>: a body is a JSON document or not; a document
\* deserializes when every required field is present with the right type.
from_str(body) ==
    IF ~body.json THEN Err(InvalidJson)
    ELSE IF body.task_id = None \/ body.parts = None \/ body.role = None
            \/ body.capabilities = None
         THEN Err(InvalidJson)
    ELSE IF \E i \in 1..Len(body.parts[1]) :
               body.parts[1][i].type \notin
                   {"text", "file", "data", "function_call", "function_response"}
         THEN Err(InvalidJson)
    ELSE Ok(A2ARequest(body.task_id[1], body.role[1], body.parts[1],
                       body.capabilities[1], body.metadata))

validate_a2a_payload_ShortCircuit(body) ==
    LET parsed == from_str(body) IN
    IF ~parsed.ok THEN Err(parsed.err)
    ELSE LET request == parsed.val
             errors ==
                 IF is_empty(request.task_id) THEN <<MissingTaskId>>
                 ELSE IF request.message_object.parts = <<>> THEN <<EmptyMessageParts>>
                 ELSE CapabilityErrors(request.capabilities)
         IN  Ok([valid |-> errors = <<>>,
                 estimated_tokens |-> estimate_tokens(request),
                 errors |-> errors])

validate_a2a_payload(body) ==
    LET parsed == from_str(body) IN
    IF ~parsed.ok THEN Err(parsed.err)
    ELSE LET request == parsed.val
             errors ==
                 (IF is_empty(request.task_id) THEN <<MissingTaskId>> ELSE <<>>)
                 \o (IF request.message_object.parts = <<>>
                     THEN <<EmptyMessageParts>> ELSE <<>>)
                 \o CapabilityErrors(request.capabilities)
         IN  Ok([valid |-> errors = <<>>,
                 estimated_tokens |-> estimate_tokens(request),
                 errors |-> errors])

check_token_bucket_NoCap(current_tokens, max_capacity, replenish_rate, elapsed_seconds, estimated_tokens) ==
    LET available == current_tokens + replenish_rate * elapsed_seconds
    IN  IF available >= estimated_tokens
        THEN [allowed |-> TRUE, remaining |-> available - estimated_tokens]
        ELSE [allowed |-> FALSE, remaining |-> available]

check_token_bucket_DropsReplenishment(current_tokens, max_capacity, replenish_rate, elapsed_seconds, estimated_tokens) ==
    LET sum == current_tokens + replenish_rate * elapsed_seconds
        available == IF sum <= max_capacity THEN sum ELSE max_capacity
    IN  IF available >= estimated_tokens
        THEN [allowed |-> TRUE, remaining |-> available - estimated_tokens]
        ELSE [allowed |-> FALSE, remaining |-> current_tokens]

\* f64::min on finite values
f64_min(a, b) == IF a <= b THEN a ELSE b

\* Returns (allowed, remaining_tokens).
check_token_bucket(current_tokens, max_capacity, replenish_rate, elapsed_seconds, estimated_tokens) ==
    LET available == f64_min(current_tokens + replenish_rate * elapsed_seconds, max_capacity)
    IN  IF available >= estimated_tokens
        THEN [allowed |-> TRUE, remaining |-> available - estimated_tokens]
        ELSE [allowed |-> FALSE, remaining |-> available]

\* The fixed-point unit of an f64 that is not a whole number: 1.0 is Fixed.
Fixed == 10000

RECURSIVE ExpSeries(_, _, _)
\* The terms x^n / n! of the exponential series from `term` (the n-1st) on, x >= 0.
ExpSeries(x, term, n) ==
    IF term = 0 THEN 0 ELSE term + ExpSeries(x, (term * x) \div (n * Fixed), n + 1)

\* f64::exp, in fixed point
exp(x) ==
    IF x >= 0 THEN ExpSeries(x, Fixed, 1) ELSE (Fixed * Fixed) \div ExpSeries(-x, Fixed, 1)

\* initial_score * (-decay_constant * violations as f64).exp()
calculate_trust_score(initial_score, decay_constant, violations) ==
    (initial_score * exp(-(decay_constant * violations))) \div Fixed

(***************************************************************************)
(* lib.rs: the filter                                                      *)
(***************************************************************************)

\* #[derive(Default)] on FilterConfig: every field is its type's zero.
FilterConfig_default ==
    [max_tokens_per_request |-> 0, trust_decay_constant |-> 0, min_trust_score |-> 0]

\* FilterConfig::new(): 100_000 tokens, decay 0.1, minimum trust 0.65.
FilterConfig_new ==
    [max_tokens_per_request |-> 100000,
     trust_decay_constant |-> Fixed \div 10,
     min_trust_score |-> (65 * Fixed) \div 100]

\* std::str::from_utf8 on the body bytes
from_utf8(body_bytes) == IF body_bytes.utf8 THEN Ok(body_bytes) ELSE Err("Invalid UTF-8")

\* send_http_response(status, [content-type, x-a2a-error], body)
send_error_response_with_body(status, body) == Some([status |-> status, body |-> body])

send_error_response(status, message) ==
    send_error_response_with_body(status, [error |-> message])

Outcome(action, response, validated, estimated) ==
    [action |-> action, response |-> response,
     x_a2a_validated |-> validated, x_estimated_tokens |-> estimated]

\* A2AFilter::on_http_request_body(body_size, end_of_stream), with `got` the host's
\* answer to get_http_request_body(0, body_size): what the call returns, the local
\* response it sends and the request headers it sets.
on_http_request_body(self, end_of_stream, got) ==
    IF ~end_of_stream THEN Outcome("Pause", None, FALSE, None)
    ELSE IF got = None THEN Outcome("Continue", None, FALSE, None)
    ELSE LET body_str == from_utf8(got[1]) IN
    IF ~body_str.ok
    THEN Outcome("Pause", send_error_response(400, "Invalid UTF-8 encoding"), FALSE, None)
    ELSE LET validation == validate_a2a_payload(body_str.val) IN
    IF ~validation.ok
    THEN Outcome("Pause", send_error_response(400, validation.err), FALSE, None)
    ELSE LET result == validation.val IN
    IF ~result.valid
    THEN Outcome("Pause",
                 send_error_response_with_body(
                     400, [error |-> "invalid_a2a_payload", details |-> result.errors]),
                 FALSE, None)
    ELSE IF result.estimated_tokens > self.max_tokens_per_request
    THEN Outcome("Pause", send_error_response(429, "Token limit exceeded"), FALSE, None)
    ELSE Outcome("Continue", None, TRUE, Some(result.estimated_tokens))

(***************************************************************************)
(* Inputs                                                                  *)
(***************************************************************************)

MaxCaps == 2        \* longest capability list
MaxParts == 2       \* longest part list given to estimate_tokens
MaxTokens == 3      \* largest stored amount and capacity given to check_token_bucket
MaxRate == 1        \* largest replenish rate
MaxElapsed == 2     \* largest elapsed time
MaxCost == 4        \* largest cost
MaxViolations == 5  \* the violation history stops counting here
MaxForwarded == 7   \* the forwarded-cost history stops counting here
MaxTime == 2        \* the clock stops here

SeqsUpTo(S, n) == UNION {[1..k -> S] : k \in 0..n}

\* "t1", "hi", "u", "f", "a/b", "u://x", "k", "q", "c1", "fn", "ok"
S_t1 == <<116, 49>>
S_hi == <<104, 105>>
S_user == <<117>>
S_f == <<102>>
S_mime == <<97, 47, 98>>
S_uri == <<117, 58, 47, 47, 120>>
S_k == <<107>>
S_q == <<113>>
S_c1 == <<99, 49>>
S_fn == <<102, 110>>
S_ok == <<111, 107>>
\* three times U+00E9 (two bytes each); U+20AC (three bytes); a quote and U+1F600 (four bytes)
S_eee == <<233, 233, 233>>
S_euro == <<8364>>
S_quote_emoji == <<34, 128512>>
\* "task-123" and "Hello, world!" of test_estimate_tokens
S_task_123 == <<116, 97, 115, 107, 45, 49, 50, 51>>
S_hello_world == <<72, 101, 108, 108, 111, 44, 32, 119, 111, 114, 108, 100, 33>>

CapInputs == {"a2a", "stateManagement", "artifactSupport", "bogus", "A2A"}

Body(utf8, json, task_id, role, parts, capabilities, metadata) ==
    [utf8 |-> utf8, json |-> json, task_id |-> task_id, role |-> role, parts |-> parts,
     capabilities |-> capabilities, metadata |-> metadata]

\* The JSON text of a request.
BodyOf(request) ==
    Body(TRUE, TRUE, Some(request.task_id), Some(request.message_object.role),
         Some(request.message_object.parts), Some(request.capabilities), request.metadata)

NotUtf8 == Body(FALSE, FALSE, None, None, None, None, None)
NotJson == Body(TRUE, FALSE, None, None, None, None, None)
MissingCapabilities == Body(TRUE, TRUE, Some(S_t1), Some(S_user), Some(<<Text(S_hi)>>), None, None)
UnknownPartType ==
    Body(TRUE, TRUE, Some(S_t1), Some(S_user), Some(<<[type |-> "image"]>>), Some(<<>>), None)
MalformedBodies == {NotJson, MissingCapabilities, UnknownPartType}

ValidateBodies ==
    {BodyOf(A2ARequest(t, S_user, ps, caps, None)) :
        t \in {<<>>, S_t1}, ps \in {<<>>, <<Text(S_hi)>>}, caps \in SeqsUpTo(CapInputs, MaxCaps)}
    \cup MalformedBodies

PartInputs ==
    {Text(<<>>), Text(S_hi), Text(S_euro),
     File(S_f, S_mime, None), File(S_f, S_mime, Some(S_uri)),
     Data([k \in {S_k} |-> JNum(12)]),
     Data([k \in {S_k, S_q} |-> IF k = S_k THEN JStr(S_quote_emoji) ELSE JNull]),
     FunctionCall(S_c1, S_fn, <<>>),
     FunctionCall(S_t1, S_fn, <<>>),
     FunctionResponse(S_c1, [k \in {S_ok} |-> JBool(TRUE)])}

ScenarioC == A2ARequest(S_task_123, S_user, <<Text(S_hello_world)>>, <<"a2a">>, None)

EstimateRequests ==
    {A2ARequest(t, m[1], ps, m[2], m[3]) :
        t \in {<<>>, S_t1, S_eee}, ps \in SeqsUpTo(PartInputs, MaxParts),
        m \in {<<S_user, <<"a2a">>, None>>,
               <<S_hi, <<"bogus", "streaming">>, Some([k \in {S_k} |-> JNum(12)])>>}}
    \cup {ScenarioC}

\* The calls of test_token_bucket_allows_valid_request and _denies_excessive_request
BucketTests == {<<100, 1000, 10, 1, 50>>, <<10, 1000, 1, 1, 500>>}

(***************************************************************************)
(* The filter as a state machine                                           *)
(***************************************************************************)

Identities == {"spiffe://agent-a"}

\* The request bodies clients send to the filter.
FilterBodies ==
    {NotUtf8, NotJson, MissingCapabilities,
     BodyOf(A2ARequest(S_t1, S_user, <<Text(S_hi)>>, <<"a2a">>, None)),
     BodyOf(A2ARequest(S_t1, S_user, <<Text(S_hi), File(S_f, S_mime, None)>>, <<>>, None)),
     BodyOf(ScenarioC),
     BodyOf(A2ARequest(<<>>, S_user, <<Text(S_hi)>>, <<"a2a">>, None)),
     BodyOf(A2ARequest(S_t1, S_user, <<>>, <<"bogus", "a2a", "bogus">>, None))}

NoContext ==
    [phase |-> "none", identity |-> None, body |-> NotJson, partial |-> FALSE, got |-> None,
     action |-> "None", response |-> None, x_a2a_validated |-> FALSE,
     x_estimated_tokens |-> None]

NoCall == [fn |-> "none"]

FilterInit ==
    /\ config = FilterConfig_default
    /\ ctx = NoContext
    /\ violationCount = [id \in Identities |-> 0]
    /\ forwardedTokens = [id \in Identities |-> 0]
    /\ now = 0

FilterIdle == UNCHANGED <<config, ctx, violationCount, forwardedTokens, now>>
FunctionsIdle == UNCHANGED <<call, ret>>

\* What the request costs: the estimate of its body when it is an A2ARequest.
Cost(body) ==
    IF body.utf8 /\ from_str(body).ok THEN estimate_tokens(from_str(body).val) ELSE 0

\* The body is an A2ARequest that breaks a validation rule.
FailsValidation(body) ==
    body.utf8 /\ validate_a2a_payload(body).ok /\ ~validate_a2a_payload(body).val.valid

\* A2AFilterRoot::create_http_context for a new request stream: identity is the
\* x-spiffe-id header of the request, body what its sender transmits.
CreateHttpContext ==
    /\ ctx.phase \in {"none", "done"}
    /\ \E identity \in {None} \cup {Some(id) : id \in Identities}, body \in FilterBodies :
          /\ identity # None =>
                /\ FailsValidation(body) => violationCount[identity[1]] < MaxViolations
                /\ forwardedTokens[identity[1]] + Cost(body) <= MaxForwarded
          /\ ctx' = [NoContext EXCEPT !.phase = "created", !.identity = identity,
                                      !.body = body]
    /\ config' = FilterConfig_default
    /\ UNCHANGED <<violationCount, forwardedTokens, now>>
    /\ FunctionsIdle

\* A2AFilter::on_http_request_headers: logs and continues.
OnHttpRequestHeaders ==
    /\ ctx.phase = "created"
    /\ ctx' = [ctx EXCEPT !.phase = "body", !.action = "Continue"]
    /\ UNCHANGED <<config, violationCount, forwardedTokens, now>>
    /\ FunctionsIdle

\* A2AFilter::on_http_request_body for one body callback of the host.
OnHttpRequestBody ==
    /\ ctx.phase = "body"
    /\ \E end_of_stream \in BOOLEAN, got \in {None, Some(ctx.body)} :
          LET out == on_http_request_body(config, end_of_stream, got)
              forwarded == end_of_stream /\ out.action = "Continue" /\ out.response = None
              failed ==
                  /\ out.response # None
                  /\ out.response[1].body.error = "invalid_a2a_payload"
              Count(h, n) ==
                  IF ctx.identity = None THEN h
                  ELSE [h EXCEPT ![ctx.identity[1]] = @ + n]
          IN  /\ ~end_of_stream => got = None   \* the body is not read before the end
              /\ ctx' = [ctx EXCEPT !.phase = IF end_of_stream THEN "done" ELSE "body",
                                    !.partial = ~end_of_stream,
                                    !.got = got,
                                    !.action = out.action,
                                    !.response = out.response,
                                    !.x_a2a_validated = out.x_a2a_validated,
                                    !.x_estimated_tokens = out.x_estimated_tokens]
              /\ violationCount' = Count(violationCount, IF failed THEN 1 ELSE 0)
              /\ forwardedTokens' =
                     Count(forwardedTokens, IF forwarded THEN Cost(ctx.body) ELSE 0)
    /\ UNCHANGED <<config, now>>
    /\ FunctionsIdle

\* One second passes.
Tick ==
    /\ now < MaxTime
    /\ now' = now + 1
    /\ UNCHANGED <<config, ctx, violationCount, forwardedTokens>>
    /\ FunctionsIdle

Init == call = NoCall /\ ret = None /\ FilterInit
Next == CreateHttpContext \/ OnHttpRequestHeaders \/ OnHttpRequestBody \/ Tick
Spec == Init /\ [][Next]_vars

(***************************************************************************)
(* The pure functions applied to bounded inputs                            *)
(***************************************************************************)

\* validate_a2a_payload(body), and A2ARequest::validate on the request it parses.
ValidatePayload ==
    /\ call = NoCall
    /\ \E body \in ValidateBodies :
          /\ call' = [fn |-> "validate_a2a_payload", body |-> body]
          /\ ret' = [result |-> validate_a2a_payload(body),
                     validate |-> IF from_str(body).ok
                                  THEN Some(A2ARequest_validate(from_str(body).val))
                                  ELSE None]
    /\ FilterIdle

NextValidate == ValidatePayload
SpecValidate == Init /\ [][NextValidate]_vars

EstimateTokens ==
    /\ call = NoCall
    /\ \E request \in EstimateRequests :
          /\ call' = [fn |-> "estimate_tokens", request |-> request]
          /\ ret' = estimate_tokens(request)
    /\ FilterIdle

NextEstimate == EstimateTokens
SpecEstimate == Init /\ [][NextEstimate]_vars

BucketCall(stored, capacity, rate, elapsed, cost, chain) ==
    /\ call' = [fn |-> "check_token_bucket", current_tokens |-> stored,
                max_capacity |-> capacity, replenish_rate |-> rate,
                elapsed_seconds |-> elapsed, estimated_tokens |-> cost, chain |-> chain]
    /\ ret' = check_token_bucket(stored, capacity, rate, elapsed, cost)

\* One call; a call whose stored tokens are the capacity starts a chain from a full bucket.
CheckTokenBucket ==
    /\ call = NoCall
    /\ \E stored \in 0..MaxTokens, capacity \in -1..MaxTokens, rate \in -1..MaxRate,
          elapsed \in -1..MaxElapsed, cost \in -1..MaxCost :
          BucketCall(stored, capacity, rate, elapsed, cost, stored = capacity)
    /\ FilterIdle

\* The next call of a chain: its stored tokens are what the previous call returned.
ChainedCheck ==
    /\ call.fn = "check_token_bucket"
    /\ call.chain
    /\ ret.remaining >= 0
    /\ \E elapsed \in 0..MaxElapsed, cost \in -1..MaxCost :
          BucketCall(ret.remaining, call.max_capacity, call.replenish_rate, elapsed, cost,
                     TRUE)
    /\ FilterIdle

\* The calls the unit tests make.
CheckTokenBucketTests ==
    /\ call = NoCall
    /\ \E t \in BucketTests : BucketCall(t[1], t[2], t[3], t[4], t[5], FALSE)
    /\ FilterIdle

NextBucket == CheckTokenBucket \/ ChainedCheck \/ CheckTokenBucketTests
SpecBucket == Init /\ [][NextBucket]_vars

(***************************************************************************)
(* Claims about the pure functions                                         *)
(***************************************************************************)

\* The "invalid capability" entries the rules ask for, in input order.
InvalidCapabilityEntries(caps) ==
    LET F[i \in 0..Len(caps)] ==
            IF i = 0 THEN <<>>
            ELSE F[i - 1] \o
                 (IF caps[i] \in {"a2a", "streaming", "pushNotifications", "stateManagement",
                                  "artifactSupport"}
                  THEN <<>> ELSE <<"invalid capability: " \o caps[i]>>)
    IN  F[Len(caps)]

\* The complete error list of a parsed body.
AllViolations(body) ==
    (IF body.task_id[1] = <<>> THEN <<"task_id is required">> ELSE <<>>)
    \o (IF Len(body.parts[1]) = 0 THEN <<"message_object.parts cannot be empty">> ELSE <<>>)
    \o InvalidCapabilityEntries(body.capabilities[1])

Validated == call.fn = "validate_a2a_payload" /\ ret.result.ok

\* C1: for every payload that parses, the errors of validate_a2a_payload are exactly the
\* task_id error, then the parts error, then one "invalid capability" entry per
\* capability outside the vocabulary in input order, and valid holds iff there are none.
C1_CollectsAllViolations ==
    Validated =>
        /\ ret.result.val.errors = AllViolations(call.body)
        /\ ret.result.val.valid = (AllViolations(call.body) = <<>>)

\* A payload breaking all three rules, the offending capability twice.
C1_Witness ==
    /\ Validated
    /\ ret.result.val.errors =
           <<"task_id is required", "message_object.parts cannot be empty",
             "invalid capability: bogus", "invalid capability: bogus">>
    /\ ~ret.result.val.valid

\* C10: A2ARequest::validate is Ok iff validate_a2a_payload reports valid, and the
\* message of its Err is the first entry of validate_a2a_payload's errors.
C10_ValidatorsAgree ==
    Validated =>
        LET v == ret.validate[1]
            r == ret.result.val
        IN  /\ v.ok <=> r.valid
            /\ ~v.ok => r.errors # <<>> /\ v.err = Head(r.errors)

\* validate stops at the first of two violations, a capability of the vocabulary
\* before the offending one.
C10_Witness ==
    /\ Validated
    /\ call.body.capabilities[1] = <<"stateManagement", "A2A">>
    /\ ~ret.validate[1].ok
    /\ ret.validate[1].err = "task_id is required"
    /\ Len(ret.result.val.errors) = 2

BucketCalled == call.fn = "check_token_bucket"

BucketArgs ==
    <<call.current_tokens, call.max_capacity, call.replenish_rate, call.elapsed_seconds,
      call.estimated_tokens>>

\* C2: check_token_bucket admits iff available = min(capacity, stored + rate * elapsed)
\* is at least the cost, returns available - cost on admit and available on deny; the
\* tests' calls give (denied, 11) and (admitted, 60).
C2_BucketFormula ==
    BucketCalled =>
        LET sum == call.current_tokens + call.replenish_rate * call.elapsed_seconds
            available == IF call.max_capacity < sum THEN call.max_capacity ELSE sum
        IN  /\ ret.allowed <=> available >= call.estimated_tokens
            /\ ret.allowed => ret.remaining = available - call.estimated_tokens
            /\ ~ret.allowed => ret.remaining = available
            /\ BucketArgs = <<10, 1000, 1, 1, 500>> => ret = [allowed |-> FALSE, remaining |-> 11]
            /\ BucketArgs = <<100, 1000, 10, 1, 50>> => ret = [allowed |-> TRUE, remaining |-> 60]

\* The denied call of the tests: the replenishment of the elapsed second is kept.
C2_Witness ==
    /\ BucketCalled
    /\ BucketArgs = <<10, 1000, 1, 1, 500>>
    /\ ~ret.allowed
    /\ ret.remaining > call.current_tokens

\* C3 as stated: for stored >= 0 and elapsed >= 0, and every capacity, rate and cost,
\* the remaining tokens are within [0, capacity].
C3_RemainingInRangeForAnyInput ==
    BucketCalled /\ call.current_tokens >= 0 /\ call.elapsed_seconds >= 0 =>
        0 <= ret.remaining /\ ret.remaining <= call.max_capacity

\* C3 amended: for stored, elapsed, capacity, rate and cost all >= 0 the remaining
\* tokens are within [0, capacity], in single calls and along a chain from a full bucket.
C3_RemainingInRange ==
    /\ BucketCalled
    /\ call.current_tokens >= 0
    /\ call.elapsed_seconds >= 0
    /\ call.max_capacity >= 0
    /\ call.replenish_rate >= 0
    /\ call.estimated_tokens >= 0
    => 0 <= ret.remaining /\ ret.remaining <= call.max_capacity

\* A later call of a chain: part of the bucket was spent, the replenishment overshoots
\* the capacity and the request is admitted.
C3_Witness ==
    /\ BucketCalled
    /\ call.chain
    /\ 0 <= call.current_tokens /\ call.current_tokens < call.max_capacity
    /\ call.replenish_rate > 0 /\ call.elapsed_seconds > 0 /\ call.estimated_tokens > 0
    /\ call.current_tokens + call.replenish_rate * call.elapsed_seconds > call.max_capacity
    /\ ret.allowed

\* The characters the claim counts for one part, measured by Length.
PartChars(part, Length(_)) ==
    CASE part.type = "text" -> Length(part.text)
      [] part.type = "file" -> Length(part.name) + Length(part.mime_type)
      [] part.type = "data" -> Length(to_string(part.data))
      [] part.type = "function_call" -> Length(part.name) + Length(to_string(part.args))
      [] part.type = "function_response" ->
            Length(part.call_id) + Length(to_string(part.response))

TotalChars(request, Length(_)) ==
    LET parts == request.message_object.parts
        F[i \in 0..Len(parts)] == IF i = 0 THEN 0 ELSE F[i - 1] + PartChars(parts[i], Length)
    IN  Length(request.task_id) + F[Len(parts)]

\* The quotient rounded up.
CeilDiv(n, d) == IF n % d = 0 THEN n \div d ELSE n \div d + 1

Estimated == call.fn = "estimate_tokens"

\* C4: estimate_tokens is ceil(totalChars / 4) with totalChars the character count of
\* task_id and of the counted fields of each part; role, capabilities and metadata do
\* not enter; "task-123" with the text "Hello, world!" gives 6.
C4_CeilQuarterOfCharacters ==
    Estimated =>
        /\ ret = CeilDiv(TotalChars(call.request, CharCount), 4)
        /\ call.request = ScenarioC => ret = 6

\* The same with every length taken in bytes of UTF-8, as String::len measures it.
EstimateIsCeilQuarterOfBytes ==
    Estimated =>
        /\ ret = CeilDiv(TotalChars(call.request, StrLen), 4)
        /\ call.request = ScenarioC => ret = 6

(***************************************************************************)
(* Claims about the filter                                                 *)
(***************************************************************************)

tokenBucketCapacity == 4   \* the bucket capacity the admission claims are instantiated with
tokenBucketRate == 1       \* and the replenish rate, tokens per second

\* The body is text that deserializes to an A2ARequest.
Parses(body) == body.utf8 /\ from_str(body).ok

\* The body is an A2ARequest with no rule violated.
IsValid(body) == Parses(body) /\ validate_a2a_payload(body).val.valid

Finished == ctx.phase = "done"
Forwarded == Finished /\ ctx.action = "Continue" /\ ctx.response = None
Rejected == Finished /\ ctx.action = "Pause" /\ ctx.response # None

\* Why the admission sequence rejects the request, by its first failing step.
RejectionReason ==
    IF ~Parses(ctx.body) THEN "malformed"
    ELSE IF ~IsValid(ctx.body) THEN "validation"
    ELSE IF Cost(ctx.body) > config.max_tokens_per_request THEN "token_limit"
    ELSE "other"

\* The trust score of an identity under the documented decay constant, from 1.0.
TrustScore(id) ==
    calculate_trust_score(Fixed, FilterConfig_new.trust_decay_constant, violationCount[id])

\* C5: requests are charged against the caller's token bucket before they are
\* forwarded, so the total cost an identity has had forwarded never exceeds the
\* capacity plus the tokens replenished in the elapsed time.
C5_ForwardedCostWithinBucket ==
    \A id \in Identities :
        forwardedTokens[id] <= tokenBucketCapacity + tokenBucketRate * now

\* C6: a valid request within the token ceiling and the bucket, from an identity whose
\* trust score is below the minimum trust score, is rejected and not forwarded.
C6_LowTrustIsRejected ==
    /\ Finished
    /\ ctx.identity # None
    /\ IsValid(ctx.body)
    /\ Cost(ctx.body) <= FilterConfig_new.max_tokens_per_request
    /\ forwardedTokens[ctx.identity[1]] <= tokenBucketCapacity + tokenBucketRate * now
    /\ TrustScore(ctx.identity[1]) < FilterConfig_new.min_trust_score
    => Rejected

\* C7: the ceiling in force is 100000: a request that was read, parses, is valid and
\* costs at most 100000 tokens is continued with both headers set, and only a cost
\* above 100000 is answered "Token limit exceeded".
C7_CeilingIs100000 ==
    Finished /\ ctx.got # None /\ IsValid(ctx.body) =>
        /\ Cost(ctx.body) <= 100000 =>
              /\ ctx.action = "Continue"
              /\ ctx.x_a2a_validated
              /\ ctx.x_estimated_tokens = Some(Cost(ctx.body))
        /\ Cost(ctx.body) > 100000 <=> Rejected

\* C8: a malformed body, a validation failure and a request over the token ceiling
\* are answered 400; 429 answers only a request the bucket denied.
C8_StatusMatchesReason ==
    Rejected =>
        /\ RejectionReason \in {"malformed", "validation", "token_limit"} =>
              ctx.response[1].status = 400
        /\ ctx.response[1].status = 429 => RejectionReason = "rate_limited"

\* C9: the handler continues at the end of the stream only when the complete body was
\* obtained, parses, is valid, is within the ceiling and carries x-a2a-validated; a
\* partial body pauses; a rejected request never carries x-a2a-validated.
C9_NothingForwardedUnchecked ==
    /\ Finished /\ ctx.action = "Continue" =>
          /\ ctx.got # None
          /\ IsValid(ctx.body)
          /\ Cost(ctx.body) <= config.max_tokens_per_request
          /\ ctx.x_a2a_validated
    /\ ctx.phase = "body" /\ ctx.partial => ctx.action = "Pause"
    /\ ctx.response # None => ctx.action = "Pause" /\ ~ctx.x_a2a_validated

\* What does hold of the handler: it pauses on a partial body and after every local
\* response, sets x-a2a-validated on no rejected request, and continues a body it
\* read only when that body is valid and within the configured ceiling.
HandlerChecksWhatItReads ==
    /\ Finished /\ ctx.action = "Continue" /\ ctx.got # None =>
          /\ IsValid(ctx.body)
          /\ Cost(ctx.body) <= config.max_tokens_per_request
          /\ ctx.x_a2a_validated
    /\ ctx.phase = "body" /\ ctx.partial => ctx.action = "Pause"
    /\ ctx.response # None => ctx.action = "Pause" /\ ~ctx.x_a2a_validated

====
